---- MODULE Spec2Model ----
(***************************************************************************)
(* A model of the tolerant wire-decoding layer of rvk:                     *)
(*   - the scalar normalizer  (src/src/objects/invariant_deserialize.rs),  *)
(*     specification SpecNorm;                                             *)
(*   - the response-envelope resolution of APIClient::call_method          *)
(*     (src/src/api.rs), specification Spec.                               *)
(*                                                                         *)
(* JSON text is modelled as sequences of one-character strings, JSON       *)
(* values as records [kind, n, s]: kind is the node kind serde_json hands   *)
(* to a visitor, n the integer of a "u64"/"i64" node (for an "f64" node    *)
(* the value in tenths), s the characters of a "str" node.                 *)
(*                                                                         *)
(* The generic integer target T of ToNum<T> is instantiated at the widths  *)
(* of Widths; i64 itself is beyond the integers TLC computes with, so      *)
(* every modelled wire integer fits u64/i64 and only T's range decides.    *)
(***************************************************************************)
EXTENDS Integers, Sequences, FiniteSets, TLC

VARIABLES
    \* ---- scalar normalizer (SpecNorm) ----
    npc,      \* "ready" before the field is decoded, "done" after
    field,    \* the member "value" of the JSON object: absent or a JSON value
    width,    \* bit width of the integer target T
    hook,     \* which deserialize_with hook decoded the field
    nres,     \* the hook's result
    \* ---- envelope resolution (Spec) ----
    pc,       \* position of call_method
    token,    \* APIClient.token
    target,   \* the caller's target type T
    supplied, \* the caller-supplied parameter map
    request,  \* the query parameters sent
    raw,      \* the JSON document read from the response body
    sink,     \* the trace sink's configuration and health at the call
    files,    \* trace artifacts written
    logs,     \* lines the trace module logged
    result,   \* the value call_method returns
    \* ---- concurrent resolutions (SpecConc) ----
    calls,    \* per call: position, target type, document, sink, result
    \* ---- DocumentType conversions (SpecDoc) ----
    dpc,      \* position of the conversion
    dvar,     \* a DocumentType variant to cast, or "none"
    dint,     \* the Integer converted
    dtype     \* DocumentType::from(dint)

nvars == <<npc, field, width, hook, nres>>
cvars == <<pc, token, target, supplied, request, raw, sink, files, logs, result>>
kvars == <<calls>>
dvars == <<dpc, dvar, dint, dtype>>
vars == <<npc, field, width, hook, nres,
          pc, token, target, supplied, request, raw, sink, files, logs, result,
          calls, dpc, dvar, dint, dtype>>

(***************************************************************************)
(* Bounds of the model.                                                    *)
(***************************************************************************)
\* wire integers -Span..Span are enumerated in full
Span == 12
\* and, around each bound of T, the integers at distance at most Near
Near == 2
\* arbitrary strings over Alphabet up to this length
MaxStrLen == 3

\* widths of the integer targets: i8 and i16 (ToNum::<i16>, line 209)
Widths == {8, 16}

RECURSIVE Pow2(_)
Pow2(k) == IF k = 0 THEN 1 ELSE 2 * Pow2(k - 1)

\* T::MIN and T::MAX of a signed integer of w bits
TMin(w) == 0 - Pow2(w - 1)
TMax(w) == Pow2(w - 1) - 1
InRange(v, w) == TMin(w) <= v /\ v <= TMax(w)

(***************************************************************************)
(* Decimal text.                                                           *)
(***************************************************************************)
DigitChars == <<"0", "1", "2", "3", "4", "5", "6", "7", "8", "9">>
IsDigit(c) == \E i \in 1..10 : DigitChars[i] = c
DigitVal(c) == (CHOOSE i \in 1..10 : DigitChars[i] = c) - 1

RECURSIVE FormatNat(_)
FormatNat(v) ==
    IF v < 10 THEN <<DigitChars[v + 1]>>
    ELSE FormatNat(v \div 10) \o <<DigitChars[(v % 10) + 1]>>

\* format!("{}", v) of an integer: decimal digits, '-' before a negative
FormatInt(v) == IF v < 0 THEN <<"-">> \o FormatNat(0 - v) ELSE FormatNat(v)

\* format!("{}", v) of an f64 whose value is t tenths: no fraction is
\* printed when it is zero
FormatFloat(t) ==
    LET a == IF t < 0 THEN 0 - t ELSE t
        sign == IF t < 0 THEN <<"-">> ELSE <<>>
    IN  IF a % 10 = 0 THEN sign \o FormatNat(a \div 10)
        ELSE sign \o FormatNat(a \div 10) \o <<".">> \o FormatNat(a % 10)

(***************************************************************************)
(* Results.  tag is "Ok" (a value), "Err", "OkNone" or "OkSome".           *)
(***************************************************************************)
OkNum(v) == [tag |-> "Ok", n |-> v, s |-> <<>>]
OkStr(t) == [tag |-> "Ok", n |-> 0, s |-> t]
Err == [tag |-> "Err", n |-> 0, s |-> <<>>]
None == [tag |-> "OkNone", n |-> 0, s |-> <<>>]
Some(r) == [tag |-> "OkSome", n |-> r.n, s |-> r.s]
NoResult == [tag |-> "none", n |-> 0, s |-> <<>>]

(***************************************************************************)
(* s.parse::<T>() for a signed T of w bits: an optional sign, then one or  *)
(* more digits, accumulated with checked arithmetic in T.                  *)
(***************************************************************************)
RECURSIVE ParseDigits(_, _, _, _)
ParseDigits(ds, acc, positive, w) ==
    IF ds = <<>> THEN OkNum(acc)
    ELSE IF ~IsDigit(Head(ds)) THEN Err
    ELSE LET nxt == IF positive THEN acc * 10 + DigitVal(Head(ds))
                    ELSE acc * 10 - DigitVal(Head(ds))
         IN  IF ~InRange(nxt, w) THEN Err
             ELSE ParseDigits(Tail(ds), nxt, positive, w)

\* variant: the parse of an unsigned type, which takes no '-' sign
ParseInt_unsigned(s, w) ==
    IF s = <<>> THEN Err
    ELSE IF Len(s) = 1 /\ Head(s) \in {"+", "-"} THEN Err
    ELSE IF Head(s) = "+" THEN ParseDigits(Tail(s), 0, TRUE, w)
    ELSE ParseDigits(s, 0, TRUE, w)

ParseInt(s, w) ==
    IF s = <<>> THEN Err
    ELSE IF Len(s) = 1 /\ Head(s) \in {"+", "-"} THEN Err
    ELSE IF Head(s) = "+" THEN ParseDigits(Tail(s), 0, TRUE, w)
    ELSE IF Head(s) = "-" THEN ParseDigits(Tail(s), 0, FALSE, w)
    ELSE ParseDigits(s, 0, TRUE, w)

\* variant: the cast `v as T`, which wraps modulo 2^w
FromU64_wrapping(v, w) == OkNum(((v + Pow2(w - 1)) % Pow2(w)) - Pow2(w - 1))

\* T::from_u64(v) and T::from_i64(v): the value when T holds it
FromU64(v, w) == IF v <= TMax(w) THEN OkNum(v) ELSE Err
FromI64(v, w) == IF InRange(v, w) THEN OkNum(v) ELSE Err

(***************************************************************************)
(* impl Visitor for ToNum<T>                                               *)
(***************************************************************************)
ToNum_visit_str(s, w) == ParseInt(s, w)
ToNum_visit_u64(v, w) == FromU64(v, w)
ToNum_visit_i64(v, w) == FromI64(v, w)

\* variant: a visit_f64 that takes a float with zero fraction as its integer
ToNum_deserialize_truncating(v, w) ==
    CASE v.kind = "u64" -> ToNum_visit_u64(v.n, w)
      [] v.kind = "i64" -> ToNum_visit_i64(v.n, w)
      [] v.kind = "str" -> ToNum_visit_str(v.s, w)
      [] v.kind = "f64" /\ v.n % 10 = 0 -> FromI64(v.n \div 10, w)
      [] OTHER -> Err

\* de.deserialize_any(ToNum::<T>::new()): the node kind picks the visit
\* method; a kind ToNum does not visit is serde's default, an error
ToNum_deserialize(v, w) ==
    CASE v.kind = "u64" -> ToNum_visit_u64(v.n, w)
      [] v.kind = "i64" -> ToNum_visit_i64(v.n, w)
      [] v.kind = "str" -> ToNum_visit_str(v.s, w)
      [] OTHER -> Err

\* .map_or(Ok(None), |v| Ok(Some(v)))
MapOrNone(r) == IF r.tag = "Ok" THEN Some(r) ELSE None

ToNum_deserialize_opt(v, w) == MapOrNone(ToNum_deserialize(v, w))

(***************************************************************************)
(* impl Visitor for ToStr                                                  *)
(***************************************************************************)
ToStr_visit_str(s) == OkStr(s)
ToStr_visit_u64(v) == OkStr(FormatInt(v))
\* variant: the digits without the sign
ToStr_visit_i64_unsigned(v) == OkStr(FormatNat(IF v < 0 THEN 0 - v ELSE v))
ToStr_visit_i64(v) == OkStr(FormatInt(v))
ToStr_visit_f64(t) == OkStr(FormatFloat(t))

ToStr_deserialize(v) ==
    CASE v.kind = "u64" -> ToStr_visit_u64(v.n)
      [] v.kind = "i64" -> ToStr_visit_i64(v.n)
      [] v.kind = "f64" -> ToStr_visit_f64(v.n)
      [] v.kind = "str" -> ToStr_visit_str(v.s)
      [] OTHER -> Err

ToStr_deserialize_opt(v) == MapOrNone(ToStr_deserialize(v))

(***************************************************************************)
(* The JSON values a field is drawn from.                                  *)
(***************************************************************************)
Absent == [kind |-> "absent", n |-> 0, s |-> <<>>]
JNum(v) == [kind |-> IF v < 0 THEN "i64" ELSE "u64", n |-> v, s |-> <<>>]
JFloat(t) == [kind |-> "f64", n |-> t, s |-> <<>>]
JStr(t) == [kind |-> "str", n |-> 0, s |-> t]
JOther(k) == [kind |-> k, n |-> 0, s |-> <<>>]

OtherKinds == {"bool", "null", "object", "array"}

WireInts ==
    ((0 - Span)..Span)
    \cup UNION {(TMin(w) - Near)..(TMin(w) + Near) : w \in Widths}
    \cup UNION {(TMax(w) - Near)..(TMax(w) + Near) : w \in Widths}

Alphabet == {"-", "+", "1", ".", " "}
ArbStrings == UNION {[1..k -> Alphabet] : k \in 0..MaxStrLen}

Strings ==
    {FormatInt(v) : v \in WireInts}
    \cup {<<"+">> \o FormatInt(v) : v \in {x \in WireInts : x >= 0}}
    \cup {<<"0">> \o FormatInt(v) : v \in {x \in WireInts : x >= 0}}
    \cup {FormatInt(v) \o <<".", "0">> : v \in WireInts}
    \cup ArbStrings

Fields ==
    {Absent}
    \cup {JNum(v) : v \in WireInts}
    \cup {JFloat(10 * v) : v \in WireInts}
    \cup {JFloat(10 * v + 5) : v \in (0 - Span)..Span}
    \cup {JStr(t) : t \in Strings}
    \cup {JOther(k) : k \in OtherKinds}

(***************************************************************************)
(* The normalizer as a state machine: one field of one object is decoded   *)
(* by one of the four hooks.                                               *)
(***************************************************************************)
InitNormVars ==
    /\ npc = "ready"
    /\ field \in Fields
    /\ width \in Widths
    /\ hook = "none"
    /\ nres = NoResult

\* struct Item { #[serde(deserialize_with = "ToNum::<T>::deserialize")] value }
\* a missing member is serde's "missing field" error
ItemToNum ==
    /\ npc = "ready"
    /\ npc' = "done"
    /\ hook' = "ToNum::deserialize"
    /\ nres' = IF field = Absent THEN Err ELSE ToNum_deserialize(field, width)
    /\ UNCHANGED <<field, width>>
    /\ UNCHANGED <<cvars, kvars, dvars>>

\* #[serde(default)] #[serde(deserialize_with = "ToNum::<T>::deserialize_opt")]
\* a missing member takes Option's default and the hook is not called
ItemToNumOpt ==
    /\ npc = "ready"
    /\ npc' = "done"
    /\ hook' = "ToNum::deserialize_opt"
    /\ nres' = IF field = Absent THEN None ELSE ToNum_deserialize_opt(field, width)
    /\ UNCHANGED <<field, width>>
    /\ UNCHANGED <<cvars, kvars, dvars>>

\* struct Item { #[serde(deserialize_with = "ToStr::deserialize")] value }
ItemToStr ==
    /\ npc = "ready"
    /\ npc' = "done"
    /\ hook' = "ToStr::deserialize"
    /\ nres' = IF field = Absent THEN Err ELSE ToStr_deserialize(field)
    /\ UNCHANGED <<field, width>>
    /\ UNCHANGED <<cvars, kvars, dvars>>

\* #[serde(default)] #[serde(deserialize_with = "ToStr::deserialize_opt")]
ItemToStrOpt ==
    /\ npc = "ready"
    /\ npc' = "done"
    /\ hook' = "ToStr::deserialize_opt"
    /\ nres' = IF field = Absent THEN None ELSE ToStr_deserialize_opt(field)
    /\ UNCHANGED <<field, width>>
    /\ UNCHANGED <<cvars, kvars, dvars>>

NextNorm == ItemToNum \/ ItemToNumOpt \/ ItemToStr \/ ItemToStrOpt

(***************************************************************************)
(* JSON documents of the envelope.  A map is a set of <<key, value>> pairs *)
(* with distinct keys.  A value of a payload or fault is a record          *)
(* [kind, n, s, elems, flds]: elems the elements of an "array", flds the   *)
(* map of an "object"; elements and members are scalars [kind, n, s].      *)
(***************************************************************************)
MapHas(m, k) == \E p \in m : p[1] = k
MapGet(m, k) == (CHOOSE p \in m : p[1] = k)[2]
\* Map::remove(key): the map without the key
MapRemove(m, k) == {p \in m : p[1] # k}
\* variant: an existing key keeps its value
MapInsert_keep(m, k, v) == IF MapHas(m, k) THEN m ELSE m \cup {<<k, v>>}
\* HashMap::insert(key, value): replaces the value of an existing key
MapInsert(m, k, v) == {p \in m : p[1] # k} \cup {<<k, v>>}

Lift(x) == [kind |-> x.kind, n |-> x.n, s |-> x.s, elems |-> <<>>, flds |-> {}]
VArr(es) == [kind |-> "array", n |-> 0, s |-> <<>>, elems |-> es, flds |-> {}]
VObj(fs) == [kind |-> "object", n |-> 0, s |-> <<>>, elems |-> <<>>, flds |-> fs]
VNull == Lift(JOther("null"))

Denied == <<"d", "e", "n", "i", "e", "d">>

\* member values of payload objects
Scalars ==
    {JNum(5), JNum(0 - 3), JStr(<<"7">>), JFloat(15), JOther("bool"), JOther("null")}
IntScalars == {JNum(5), JNum(0 - 3)}

PayloadValues ==
    {Lift(x) : x \in {JNum(5), JStr(<<"7">>), JOther("bool"), JOther("null")}}
    \cup {VArr(<<>>), VArr(<<JNum(5)>>), VArr(<<JNum(5), JNum(0 - 3)>>),
          VArr(<<JStr(<<"7">>)>>)}
    \cup {VObj({<<"count", x>>}) : x \in Scalars}
    \cup {VObj({<<"user_id", x>>}) : x \in IntScalars}
    \cup {VObj({<<"count", x>>, <<"unexpected_shape", JOther("bool")>>}) : x \in IntScalars}
    \cup {VObj({<<"unexpected_shape", JOther("bool")>>}), VObj({})}

FaultValues ==
    {VObj(c \cup m) :
        c \in {{}, {<<"code", JNum(15)>>}, {<<"code", JStr(<<"1", "5">>)>>}},
        m \in {{}, {<<"message", JStr(Denied)>>}, {<<"message", JNum(5)>>}}}
    \cup {VObj({<<"code", JNum(5)>>, <<"message", JStr(<<"c">>)>>,
                <<"captcha_sid", JStr(<<"7">>)>>})}
    \cup {Lift(JNum(5)), VNull}

\* the raw documents response.json() may yield
ObjectDocs ==
    {[kind |-> "object", flds |-> r \cup e \cup o] :
        r \in {{}} \cup {{<<"response", v>>} : v \in PayloadValues},
        e \in {{}} \cup {{<<"error", v>>} : v \in FaultValues},
        o \in {{}, {<<"execute_errors", Lift(JNum(5))>>}}}
OtherDocs == {[kind |-> k, flds |-> {}] : k \in {"array", "str", "u64", "bool", "null"}}
Docs == ObjectDocs \cup OtherDocs
NoDoc == [kind |-> "none", flds |-> {}]

(***************************************************************************)
(* Value::to_string(): the JSON text of a document, as a sequence of       *)
(* tokens (punctuation, quotes, keys, characters).  The members of an      *)
(* object are written in the order of their keys.                          *)
(***************************************************************************)
KeyOrder == <<"captcha_sid", "code", "count", "error", "execute_errors",
              "message", "response", "unexpected_shape", "user_id">>

Quoted(cs) == <<"\"">> \o cs \o <<"\"">>

\* a float is written with its fraction, also when it is zero
JsonFloatText(x) ==
    LET a == IF x < 0 THEN 0 - x ELSE x
    IN  (IF x < 0 THEN <<"-">> ELSE <<>>)
        \o FormatNat(a \div 10) \o <<".">> \o FormatNat(a % 10)

ScalarText(x) ==
    CASE x.kind \in {"u64", "i64"} -> FormatInt(x.n)
      [] x.kind = "f64" -> JsonFloatText(x.n)
      [] x.kind = "str" -> Quoted(x.s)
      [] x.kind = "bool" -> <<"true">>
      [] OTHER -> <<"null">>

RECURSIVE MembersText(_, _, _)
MembersText(m, i, first) ==
    IF i > Len(KeyOrder) THEN <<>>
    ELSE IF ~MapHas(m, KeyOrder[i]) THEN MembersText(m, i + 1, first)
    ELSE (IF first THEN <<>> ELSE <<",">>)
         \o Quoted(<<KeyOrder[i]>>) \o <<":">> \o ScalarText(MapGet(m, KeyOrder[i]))
         \o MembersText(m, i + 1, FALSE)

RECURSIVE ElementsText(_, _)
ElementsText(es, i) ==
    IF i > Len(es) THEN <<>>
    ELSE (IF i = 1 THEN <<>> ELSE <<",">>) \o ScalarText(es[i]) \o ElementsText(es, i + 1)

ValueText(v) ==
    CASE v.kind = "object" -> <<"{">> \o MembersText(v.flds, 1, TRUE) \o <<"}">>
      [] v.kind = "array" -> <<"[">> \o ElementsText(v.elems, 1) \o <<"]">>
      [] OTHER -> ScalarText(v)

RECURSIVE EnvelopeText(_, _, _)
EnvelopeText(m, i, first) ==
    IF i > Len(KeyOrder) THEN <<>>
    ELSE IF ~MapHas(m, KeyOrder[i]) THEN EnvelopeText(m, i + 1, first)
    ELSE (IF first THEN <<>> ELSE <<",">>)
         \o Quoted(<<KeyOrder[i]>>) \o <<":">> \o ValueText(MapGet(m, KeyOrder[i]))
         \o EnvelopeText(m, i + 1, FALSE)

Value_to_string(doc) ==
    CASE doc.kind = "object" -> <<"{">> \o EnvelopeText(doc.flds, 1, TRUE) \o <<"}">>
      [] doc.kind = "array" -> <<"[", "]">>
      [] doc.kind = "str" -> Quoted(<<>>)
      [] doc.kind = "u64" -> <<"0">>
      [] doc.kind = "bool" -> <<"true">>
      [] OTHER -> <<"null">>

(***************************************************************************)
(* from_value::<T>(value): the structural decode of serde's derive.        *)
(***************************************************************************)
\* the caller's target types: serde_json::Value (the generated methods),
\* PhotoTags { count: i64 } and FriendItem { user_id: i64 }
Targets == {"Value", "PhotoTags", "FriendItem"}
FieldOf(T) == IF T = "PhotoTags" THEN "count" ELSE "user_id"
\* what the derived visitor of T says it expects
Expecting(T) == IF T = "PhotoTags" THEN "struct PhotoTags" ELSE "struct FriendItem"

NoVal == [ty |-> "none", v |-> VNull, n |-> 0]
DecOk(d) == [ok |-> TRUE, val |-> d, cause |-> <<>>]
DecErr(c) == [ok |-> FALSE, val |-> NoVal, cause |-> c]

\* i64::deserialize of a member or element
DecodeI64(x) ==
    IF x.kind \in {"u64", "i64"} THEN [ok |-> TRUE, n |-> x.n]
    ELSE [ok |-> FALSE, n |-> 0]

\* #[derive(Deserialize)] struct T { f: i64 }: from an object by member
\* name (other members are ignored), from an array by position
DecodeStruct(T, v) ==
    CASE v.kind = "object" ->
            IF ~MapHas(v.flds, FieldOf(T)) THEN DecErr(<<"missing field", FieldOf(T)>>)
            ELSE LET d == DecodeI64(MapGet(v.flds, FieldOf(T)))
                 IN  IF d.ok THEN DecOk([ty |-> T, v |-> VNull, n |-> d.n])
                     ELSE DecErr(<<"invalid type", "i64">>)
      [] v.kind = "array" ->
            IF Len(v.elems) = 0 THEN DecErr(<<"invalid length", Expecting(T)>>)
            ELSE LET d == DecodeI64(v.elems[1])
                 IN  IF ~d.ok THEN DecErr(<<"invalid type", "i64">>)
                     ELSE IF Len(v.elems) > 1
                          THEN DecErr(<<"invalid length", "fewer elements in array">>)
                     ELSE DecOk([ty |-> T, v |-> VNull, n |-> d.n])
      [] OTHER -> DecErr(<<"invalid type", Expecting(T)>>)

FromValue(T, v) ==
    IF T = "Value" THEN DecOk([ty |-> "Value", v |-> v, n |-> 0])
    ELSE DecodeStruct(T, v)

\* from_value::<APIError>(err): the Fault record { code, message }; further
\* members pass through unvalidated
FaultErr(c) == [ok |-> FALSE, code |-> 0, message |-> <<>>, cause |-> c]
FromValueAPIError(v) ==
    IF v.kind # "object" THEN FaultErr(<<"invalid type", "struct APIError">>)
    ELSE IF ~MapHas(v.flds, "code") THEN FaultErr(<<"missing field", "code">>)
    ELSE IF MapGet(v.flds, "code").kind \notin {"u64", "i64"}
         THEN FaultErr(<<"invalid type", "integer">>)
    ELSE IF ~MapHas(v.flds, "message") THEN FaultErr(<<"missing field", "message">>)
    ELSE IF MapGet(v.flds, "message").kind # "str"
         THEN FaultErr(<<"invalid type", "a string">>)
    ELSE [ok |-> TRUE, code |-> MapGet(v.flds, "code").n,
          message |-> MapGet(v.flds, "message").s, cause |-> <<>>]

(***************************************************************************)
(* What call_method returns.                                               *)
(***************************************************************************)
NoOutcome == [kind |-> "none", val |-> NoVal, code |-> 0, message |-> <<>>,
              cause |-> <<>>, tname |-> ""]
Ok(d) == [NoOutcome EXCEPT !.kind = "Ok", !.val = d]
\* "...".into(): a message
FromMessage(msg) == [NoOutcome EXCEPT !.kind = "MalformedEnvelope", !.cause = <<msg>>]
\* the ? of a serde_json::Error: the conversion sees the error alone
FromSerdeError(c) == [NoOutcome EXCEPT !.kind = "PayloadDecodeError", !.cause = c]
\* APIError.into()
FromAPIError(f) ==
    [NoOutcome EXCEPT !.kind = "DomainError", !.code = f.code, !.message = f.message]
\* the ? of a reqwest::Error
FromReqwestError(c) == [NoOutcome EXCEPT !.kind = "TransportError", !.cause = <<c>>]

(***************************************************************************)
(* mod trace                                                               *)
(***************************************************************************)
\* trace timestamps (one-second resolution) are drawn from 0..NSeconds-1
NSeconds == 1

Sinks ==
    [feature : BOOLEAN,    \* built with feature "trace_response"
     traceAll : BOOLEAN,   \* RVK_TRACE_ALL is "1"
     dirOk : BOOLEAN,      \* create_dir_all succeeds
     jsonOk : BOOLEAN,     \* the write of the .json file succeeds
     msgOk : BOOLEAN,      \* the write of the _msg.txt file succeeds
     now : 0..(NSeconds - 1)]
NoSink == [feature |-> FALSE, traceAll |-> FALSE, dirOk |-> FALSE,
           jsonOk |-> FALSE, msgOk |-> FALSE, now |-> 0]

\* std::fs::write(path, content): creates or overwrites the file; a
\* .json file holds a document's text, a _msg.txt file a message
Write(fs, path, doc, msg) ==
    {f \in fs : f.path # path} \cup {[path |-> path, doc |-> doc, msg |-> msg]}

\* a log line: level, text, trace subdirectory, file
LogLine(level, text, subdir, file) == <<level, text, subdir, file>>

\* the files and the log after the call
try_trace_response(fs, sk, subdir, response, error_message) ==
    IF ~sk.dirOk
    THEN [files |-> fs,
          logs |-> <<LogLine("error", "failed to create directory", subdir, "")>>]
    ELSE LET fs1 == IF sk.jsonOk
                    THEN Write(fs, <<subdir, sk.now, ".json">>, response, <<>>)
                    ELSE fs
             l1 == IF sk.jsonOk
                   THEN <<LogLine("debug", "write response into file", subdir, ".json")>>
                   ELSE <<LogLine("error", "failed to write file", subdir, ".json")>>
         IN  IF error_message = <<>> THEN [files |-> fs1, logs |-> l1]
             ELSE IF sk.msgOk
             THEN [files |-> Write(fs1, <<subdir, sk.now, "_msg.txt">>, <<>>, error_message),
                   logs |-> l1 \o <<LogLine("debug", "write problem message into file",
                                             subdir, "_msg.txt")>>]
             ELSE [files |-> fs1,
                   logs |-> l1 \o <<LogLine("error", "failed to write file",
                                             subdir, "_msg.txt")>>]

try_trace_failed_response(fs, sk, response, error_message) ==
    try_trace_response(fs, sk, "/failed", response, error_message)

try_trace_succeeded_response(fs, sk, response) ==
    try_trace_response(fs, sk, "/succeeded", response, <<>>)

\* no trace call
Untraced(fs) == [files |-> fs, logs |-> <<>>]

(***************************************************************************)
(* APIClient::call_method                                                  *)
(***************************************************************************)
Tokens == {"tokA", "tokB"}
ParamMaps ==
    {{}, {<<"q", "cats">>}, {<<"v", "0.1">>, <<"q", "cats">>},
     {<<"access_token", "forged">>, <<"v", "0.1">>}}

InitCallVars ==
    /\ pc = "idle"
    /\ token \in Tokens
    /\ target = "none"
    /\ supplied = {}
    /\ request = {}
    /\ raw = NoDoc
    /\ sink = NoSink
    /\ files = {}
    /\ logs = <<>>
    /\ result = NoOutcome

\* params.insert("v", ...); params.insert("access_token", ...); the request
\* is built and sent
CallMethod ==
    /\ pc = "idle"
    /\ \E T \in Targets, ps \in ParamMaps :
          /\ target' = T
          /\ supplied' = ps
          /\ request' = MapInsert(MapInsert(ps, "v", "API_VERSION"),
                                  "access_token", token)
    /\ pc' = "sending"
    /\ UNCHANGED <<token, raw, sink, files, logs, result>>
    /\ UNCHANGED <<nvars, kvars, dvars>>

\* .send().await fails: response_result? returns the error
SendErr ==
    /\ pc = "sending"
    /\ pc' = "done"
    /\ result' = FromReqwestError("send")
    /\ UNCHANGED <<token, target, supplied, request, raw, sink, files, logs>>
    /\ UNCHANGED <<nvars, kvars, dvars>>

SendOk ==
    /\ pc = "sending"
    /\ pc' = "reading"
    /\ UNCHANGED <<token, target, supplied, request, raw, sink, files, logs, result>>
    /\ UNCHANGED <<nvars, kvars, dvars>>

\* variant: the error is recorded and resolution goes on with a null document
JsonErr_continues ==
    /\ pc = "reading"
    /\ pc' = "fetched"
    /\ raw' = [kind |-> "null", flds |-> {}]
    /\ result' = FromReqwestError("json")
    /\ UNCHANGED <<token, target, supplied, request, sink, files, logs>>
    /\ UNCHANGED <<nvars, kvars, dvars>>

\* response.json().await fails: value_result? returns the error
JsonErr ==
    /\ pc = "reading"
    /\ pc' = "done"
    /\ result' = FromReqwestError("json")
    /\ UNCHANGED <<token, target, supplied, request, raw, sink, files, logs>>
    /\ UNCHANGED <<nvars, kvars, dvars>>

JsonOk ==
    /\ pc = "reading"
    /\ pc' = "fetched"
    /\ raw' \in Docs
    /\ UNCHANGED <<token, target, supplied, request, sink, files, logs, result>>
    /\ UNCHANGED <<nvars, kvars, dvars>>

\* variant: the fault is looked up under another key and never found
ResolveError_otherKey(api_response) ==
    FromMessage("The API responded with neither a response nor an error!")

\* the match on api_response.remove("error")
ResolveError(api_response) ==
    IF MapHas(api_response, "error")
    THEN LET err == FromValueAPIError(MapGet(api_response, "error"))
         IN  IF err.ok THEN FromAPIError(err) ELSE FromSerdeError(err.cause)
    ELSE FromMessage("The API responded with neither a response nor an error!")

\* variant: the whole envelope is decoded instead of the removed member
ResolveResponse_whole(T, doc, sk, fs) ==
    LET res == FromValue(T, VObj(doc.flds))
    IN  [out |-> IF res.ok THEN Ok(res.val) ELSE FromSerdeError(res.cause),
         files |-> fs, logs |-> <<>>]

\* variant: a payload that does not decode falls through to the fault branch
ResolveResponse_fallthrough(T, doc, sk, fs) ==
    LET res == FromValue(T, MapGet(doc.flds, "response"))
    IN  [out |-> IF res.ok THEN Ok(res.val)
                 ELSE ResolveError(MapRemove(doc.flds, "response")),
         files |-> fs, logs |-> <<>>]

\* variant: a trace directory that cannot be created fails the call
ResolveResponse_sinkFails(T, doc, sk, fs) ==
    LET res == FromValue(T, MapGet(doc.flds, "response"))
        attempted == sk.feature /\ (~res.ok \/ sk.traceAll)
    IN  [out |-> IF attempted /\ ~sk.dirOk THEN FromMessage("failed to create directory")
                 ELSE IF res.ok THEN Ok(res.val) ELSE FromSerdeError(res.cause),
         files |-> fs, logs |-> <<>>]

\* variant: a successful decode is traced whatever RVK_TRACE_ALL says
ResolveResponse_traceAlways(T, doc, sk, fs) ==
    LET response_copy == Value_to_string(doc)
        res == FromValue(T, MapGet(doc.flds, "response"))
        tr == IF ~sk.feature THEN Untraced(fs)
              ELSE IF ~res.ok
                   THEN try_trace_failed_response(fs, sk, response_copy, res.cause)
              ELSE try_trace_succeeded_response(fs, sk, response_copy)
    IN  [out |-> IF res.ok THEN Ok(res.val) ELSE FromSerdeError(res.cause),
         files |-> tr.files, logs |-> tr.logs]

\* variant: the copy is taken after the payload member is removed
ResolveResponse_copyAfter(T, doc, sk, fs) ==
    LET res == FromValue(T, MapGet(doc.flds, "response"))
        response_copy == Value_to_string([doc EXCEPT !.flds = MapRemove(@, "response")])
        tr == IF ~sk.feature THEN Untraced(fs)
              ELSE IF ~res.ok
                   THEN try_trace_failed_response(fs, sk, response_copy, res.cause)
              ELSE IF sk.traceAll
                   THEN try_trace_succeeded_response(fs, sk, response_copy)
              ELSE Untraced(fs)
    IN  [out |-> IF res.ok THEN Ok(res.val) ELSE FromSerdeError(res.cause),
         files |-> tr.files, logs |-> tr.logs]

\* the match on api_response.remove("response"), with its trace calls;
\* response_copy is taken before the member is removed
ResolveResponse(T, doc, sk, fs) ==
    LET response_copy == Value_to_string(doc)
        ok == MapGet(doc.flds, "response")
        res == FromValue(T, ok)
        tr == IF ~sk.feature THEN Untraced(fs)
              ELSE IF ~res.ok
                   THEN try_trace_failed_response(fs, sk, response_copy, res.cause)
              ELSE IF sk.traceAll
                   THEN try_trace_succeeded_response(fs, sk, response_copy)
              ELSE Untraced(fs)
    IN  [out |-> IF res.ok THEN Ok(res.val) ELSE FromSerdeError(res.cause),
         files |-> tr.files, logs |-> tr.logs]

\* variant: the fault is looked up before the payload
Resolution_faultFirst(T, doc, sk, fs) ==
    IF doc.kind # "object"
    THEN [out |-> FromMessage("API response is not an object!"),
          files |-> fs, logs |-> <<>>]
    ELSE IF MapHas(doc.flds, "error")
         THEN [out |-> ResolveError(doc.flds), files |-> fs, logs |-> <<>>]
         ELSE IF MapHas(doc.flds, "response")
              THEN ResolveResponse(T, doc, sk, fs)
              ELSE [out |-> ResolveError(doc.flds), files |-> fs, logs |-> <<>>]

\* variant: a document that is not an object gives an empty value
Resolution_lenient(T, doc, sk, fs) ==
    IF doc.kind # "object"
    THEN [out |-> Ok(NoVal), files |-> fs, logs |-> <<>>]
    ELSE IF MapHas(doc.flds, "response")
         THEN ResolveResponse(T, doc, sk, fs)
         ELSE [out |-> ResolveError(MapRemove(doc.flds, "response")),
               files |-> fs, logs |-> <<>>]

\* lines 101-131: everything call_method does once the body is read
Resolution(T, doc, sk, fs) ==
    IF doc.kind # "object"
    THEN [out |-> FromMessage("API response is not an object!"),
          files |-> fs, logs |-> <<>>]
    ELSE IF MapHas(doc.flds, "response")
         THEN ResolveResponse(T, doc, sk, fs)
         ELSE [out |-> ResolveError(MapRemove(doc.flds, "response")),
               files |-> fs, logs |-> <<>>]

\* variant: a failed decode is tried again
Resolve_retrying ==
    /\ pc = "fetched"
    /\ \E sk \in Sinks :
          LET r == Resolution(target, raw, sk, files)
          IN  /\ sink' = sk
              /\ files' = r.files
              /\ logs' = logs \o r.logs
              /\ IF r.out.kind = "PayloadDecodeError"
                 THEN pc' = "fetched" /\ result' = result
                 ELSE pc' = "done" /\ result' = r.out
    /\ UNCHANGED <<token, target, supplied, request, raw>>
    /\ UNCHANGED <<nvars, kvars, dvars>>

Resolve ==
    /\ pc = "fetched"
    /\ \E sk \in Sinks :
          LET r == Resolution(target, raw, sk, files)
          IN  /\ sink' = sk
              /\ result' = r.out
              /\ files' = r.files
              /\ logs' = logs \o r.logs
    /\ pc' = "done"
    /\ UNCHANGED <<token, target, supplied, request, raw>>
    /\ UNCHANGED <<nvars, kvars, dvars>>

NextCall == CallMethod \/ SendErr \/ SendOk \/ JsonErr \/ JsonOk \/ Resolve

(***************************************************************************)
(* Specifications.                                                         *)
(***************************************************************************)
IdleNorm ==
    /\ npc = "off"
    /\ field = Absent
    /\ width = 16
    /\ hook = "none"
    /\ nres = NoResult

IdleCall ==
    /\ pc = "off"
    /\ token = "tokA"
    /\ target = "none"
    /\ supplied = {}
    /\ request = {}
    /\ raw = NoDoc
    /\ sink = NoSink
    /\ files = {}
    /\ logs = <<>>
    /\ result = NoOutcome

(***************************************************************************)
(* Several call_method futures of one process, resolving independent       *)
(* documents.  Each has its own target, document and result; the trace     *)
(* directory, and so the files in it, and the log belong to the process.   *)
(* Lines 101-131 hold no await, so one resolution is one step.             *)
(***************************************************************************)
NCalls == 2
Procs == 1..NCalls

\* documents with a payload that decodes into PhotoTags, two that do not,
\* and one with neither key
ConcDocs ==
    {[kind |-> "object", flds |-> {<<"response", v>>}] :
        v \in {VObj({<<"count", JNum(5)>>}), Lift(JNum(5)), VNull}}
    \cup {[kind |-> "object", flds |-> {}]}

\* the build with the trace_response feature
ConcSinks == {sk \in Sinks : sk.feature}

NoCall == [pc |-> "idle", target |-> "", raw |-> NoDoc, sink |-> NoSink,
           result |-> NoOutcome]

InitConcVars == calls = [c \in Procs |-> NoCall]

\* lines 81-99 of call c: the request is sent and the body read
ConcFetch(c) ==
    /\ calls[c].pc = "idle"
    /\ \E d \in ConcDocs :
          calls' = [calls EXCEPT ![c] = [@ EXCEPT !.pc = "fetched",
                                                 !.target = "PhotoTags",
                                                 !.raw = d]]
    /\ UNCHANGED cvars
    /\ UNCHANGED <<nvars, dvars>>

\* lines 101-131 of call c
ConcResolve(c) ==
    /\ calls[c].pc = "fetched"
    /\ \E sk \in ConcSinks :
          LET r == Resolution(calls[c].target, calls[c].raw, sk, files)
          IN  /\ calls' = [calls EXCEPT ![c] = [@ EXCEPT !.pc = "done",
                                                        !.sink = sk,
                                                        !.result = r.out]]
              /\ files' = r.files
              /\ logs' = logs \o r.logs
    /\ UNCHANGED <<pc, token, target, supplied, request, raw, sink, result>>
    /\ UNCHANGED <<nvars, dvars>>

NextConc == \E c \in Procs : ConcFetch(c) \/ ConcResolve(c)

(***************************************************************************)
(* DocumentType and its conversions from and to Integer.                   *)
(***************************************************************************)
DocSpan == 60

DocumentTypes ==
    {"Text", "Archive", "Gif", "Image", "Audio", "Video", "Ebook", "Other"}

\* d as Integer: the declared discriminant
AsInteger(d) ==
    CASE d = "Text" -> 1
      [] d = "Archive" -> 2
      [] d = "Gif" -> 3
      [] d = "Image" -> 4
      [] d = "Audio" -> 5
      [] d = "Video" -> 6
      [] d = "Ebook" -> 7
      [] d = "Other" -> 8

\* variant: the arm for 7 is missing
DocumentType_from_short(val) ==
    CASE val = 1 -> "Text"
      [] val = 2 -> "Archive"
      [] val = 3 -> "Gif"
      [] val = 4 -> "Image"
      [] val = 5 -> "Audio"
      [] val = 6 -> "Video"
      [] OTHER -> "Other"

\* impl From<Integer> for DocumentType
DocumentType_from(val) ==
    CASE val = 1 -> "Text"
      [] val = 2 -> "Archive"
      [] val = 3 -> "Gif"
      [] val = 4 -> "Image"
      [] val = 5 -> "Audio"
      [] val = 6 -> "Video"
      [] val = 7 -> "Ebook"
      [] OTHER -> "Other"

InitDocVars ==
    /\ dpc = "start"
    /\ dvar = "none"
    /\ dint = 0
    /\ dtype = "none"

\* a variant is cast to Integer
DocCast ==
    /\ dpc = "start"
    /\ \E d \in DocumentTypes :
          /\ dvar' = d
          /\ dint' = AsInteger(d)
    /\ dpc' = "integer"
    /\ UNCHANGED dtype
    /\ UNCHANGED <<nvars, cvars, kvars>>

\* an Integer arrives in a document
DocWire ==
    /\ dpc = "start"
    /\ dint' \in (0 - DocSpan)..DocSpan
    /\ dpc' = "integer"
    /\ UNCHANGED <<dvar, dtype>>
    /\ UNCHANGED <<nvars, cvars, kvars>>

\* DocumentType::from(val), val.into()
DocFrom ==
    /\ dpc = "integer"
    /\ dtype' = DocumentType_from(dint)
    /\ dpc' = "done"
    /\ UNCHANGED <<dvar, dint>>
    /\ UNCHANGED <<nvars, cvars, kvars>>

NextDoc == DocCast \/ DocWire \/ DocFrom

IdleConc == calls = <<>>

IdleDoc ==
    /\ dpc = "off"
    /\ dvar = "none"
    /\ dint = 0
    /\ dtype = "none"

Init == InitCallVars /\ IdleNorm /\ IdleConc /\ IdleDoc
Next == NextCall
Spec == Init /\ [][Next]_vars

InitNorm == InitNormVars /\ IdleCall /\ IdleConc /\ IdleDoc
SpecNorm == InitNorm /\ [][NextNorm]_vars

InitConc == InitConcVars /\ IdleCall /\ IdleNorm /\ IdleDoc
SpecConc == InitConc /\ [][NextConc]_vars

InitDoc == InitDocVars /\ IdleCall /\ IdleNorm /\ IdleConc
SpecDoc == InitDoc /\ [][NextDoc]_vars

(***************************************************************************)
(* Properties of the scalar normalizer, checked under SpecNorm.            *)
(***************************************************************************)
\* an integer numeral: an optional sign and one or more digits
IsNumeral(s) ==
    /\ s # <<>>
    /\ LET ds == IF Head(s) \in {"+", "-"} THEN Tail(s) ELSE s
       IN  ds # <<>> /\ \A i \in 1..Len(ds) : IsDigit(ds[i])

RECURSIVE DigitsValue(_)
DigitsValue(ds) ==
    IF ds = <<>> THEN 0
    ELSE 10 * DigitsValue(SubSeq(ds, 1, Len(ds) - 1)) + DigitVal(ds[Len(ds)])

\* the integer a numeral denotes
NumeralValue(s) ==
    IF Head(s) = "-" THEN 0 - DigitsValue(Tail(s))
    ELSE IF Head(s) = "+" THEN DigitsValue(Tail(s))
    ELSE DigitsValue(s)

\* the decimal text of v is the one numeral of v with no '+' and no leading zero
IsDecimalTextOf(s, v) ==
    /\ IsNumeral(s)
    /\ NumeralValue(s) = v
    /\ Head(s) # "+"
    /\ (Head(s) = "-") = (v < 0)
    /\ LET ds == IF Head(s) = "-" THEN Tail(s) ELSE s
       IN  Len(ds) > 1 => Head(ds) # "0"

OptHooks == {"ToNum::deserialize_opt", "ToStr::deserialize_opt"}

\* a present value the target cannot hold
Malformed(v, h, w) ==
    IF h = "ToNum::deserialize_opt"
    THEN \/ v.kind \in {"f64"} \cup OtherKinds
         \/ v.kind \in {"u64", "i64"} /\ ~InRange(v.n, w)
         \/ v.kind = "str" /\ ~IsNumeral(v.s)
         \/ v.kind = "str" /\ IsNumeral(v.s) /\ ~InRange(NumeralValue(v.s), w)
    ELSE v.kind \in OtherKinds

\* C1: the optional normalizer gives None when the field is missing and an
\* error, not None, when the field is present and malformed for the target.
C1_OptionalErrorsOnMalformed ==
    (npc = "done" /\ hook \in OptHooks) =>
        /\ field = Absent => nres = None
        /\ (field # Absent /\ Malformed(field, hook, width)) => nres.tag = "Err"

\* C2: for every integer n representable in T, the JSON number n and the
\* JSON string holding the decimal text of n both normalize to n.
C2_NumberAndTextAgree ==
    (npc = "done" /\ hook = "ToNum::deserialize") =>
        /\ (field.kind \in {"u64", "i64"} /\ InRange(field.n, width))
              => nres = OkNum(field.n)
        /\ \A v \in WireInts :
              (InRange(v, width) /\ field.kind = "str" /\ IsDecimalTextOf(field.s, v))
                 => nres = OkNum(v)

C2_Witness ==
    /\ npc = "done" /\ hook = "ToNum::deserialize"
    /\ width = 16
    /\ field = JStr(<<"-", "3", "2", "7", "6", "8">>)
    /\ nres = OkNum(TMin(16))

\* C3: an integer target rejects every float (also one with zero fraction),
\* every string with a fractional component and every string that is not a
\* complete integer numeral; nothing is truncated or defaulted.
C3_NonIntegersRejected ==
    (npc = "done" /\ hook = "ToNum::deserialize") =>
        /\ field.kind = "f64" => nres = Err
        /\ (field.kind = "str" /\ \E i \in 1..Len(field.s) : field.s[i] = ".")
              => nres = Err
        /\ (field.kind = "str" /\ ~IsNumeral(field.s)) => nres = Err

C3_Witness ==
    /\ npc = "done" /\ hook = "ToNum::deserialize"
    /\ \/ field = JFloat(0 - 120)
       \/ field = JStr(<<"-", "+">>)
    /\ nres = Err

\* the integer an integer input denotes
IsIntegerInput(v) == v.kind \in {"u64", "i64"} \/ (v.kind = "str" /\ IsNumeral(v.s))
InputValue(v) == IF v.kind = "str" THEN NumeralValue(v.s) ELSE v.n

\* C4: an integer input is accepted if and only if it lies in T's range, and
\* then as itself; outside the range it is an error, never wrapped or saturated.
C4_AcceptedIffInRange ==
    (npc = "done" /\ hook = "ToNum::deserialize" /\ IsIntegerInput(field)) =>
        IF InRange(InputValue(field), width)
        THEN nres = OkNum(InputValue(field))
        ELSE nres = Err

C4_Witness ==
    /\ npc = "done" /\ hook = "ToNum::deserialize"
    /\ width = 16
    /\ field = JNum(TMax(16) + 1)
    /\ nres = Err

\* C5: the string target is decided by the input kind: an integer gives its
\* decimal text ('-' before a negative), a string gives itself unchanged,
\* an object, array, bool or null is an error.
C5_ToStrByKind ==
    (npc = "done" /\ hook = "ToStr::deserialize" /\ field # Absent) =>
        /\ field.kind \in {"u64", "i64"} =>
              (nres.tag = "Ok" /\ IsDecimalTextOf(nres.s, field.n))
        /\ field.kind = "str" => nres = OkStr(field.s)
        /\ field.kind \in OtherKinds => nres = Err

C5_Witness ==
    /\ npc = "done" /\ hook = "ToStr::deserialize"
    /\ field = JNum(0 - 12)
    /\ nres = OkStr(<<"-", "1", "2">>)

(***************************************************************************)
(* Properties of the envelope resolution, checked under Spec.              *)
(***************************************************************************)
Resolved == pc = "done" /\ raw # NoDoc
HasPayload == raw.kind = "object" /\ MapHas(raw.flds, "response")
HasFault == raw.kind = "object" /\ MapHas(raw.flds, "error")
Payload == MapGet(raw.flds, "response")
Fault == MapGet(raw.flds, "error")

\* the fault value is a Fault record: a code and a message
IsFaultRecord(v) ==
    /\ v.kind = "object"
    /\ MapHas(v.flds, "code") /\ MapGet(v.flds, "code").kind \in {"u64", "i64"}
    /\ MapHas(v.flds, "message") /\ MapGet(v.flds, "message").kind = "str"

\* C6: when the payload key is present and its value decodes into T, the
\* result is Ok of the structural decode of the payload value alone.
C6_PayloadDecoded ==
    (Resolved /\ HasPayload /\ FromValue(target, Payload).ok) =>
        /\ result.kind = "Ok"
        /\ result.val = FromValue(target, Payload).val
        /\ result = Ok(result.val)

C6_Witness ==
    /\ Resolved
    /\ target = "PhotoTags"
    /\ raw.flds = {<<"response", VObj({<<"count", JNum(5)>>})>>,
                   <<"error", VObj({<<"code", JNum(15)>>, <<"message", JStr(Denied)>>})>>,
                   <<"execute_errors", Lift(JNum(5))>>}
    /\ result = Ok([ty |-> "PhotoTags", v |-> VNull, n |-> 5])

\* C7: with no payload key and a fault key whose value is a Fault record,
\* the result is a DomainError with the fault's code and message unchanged.
C7_FaultIsDomainError ==
    (Resolved /\ raw.kind = "object" /\ ~HasPayload /\ HasFault /\ IsFaultRecord(Fault)) =>
        /\ result.kind = "DomainError"
        /\ result.code = MapGet(Fault.flds, "code").n
        /\ result.message = MapGet(Fault.flds, "message").s

C7_Witness ==
    /\ Resolved
    /\ raw.flds = {<<"error", VObj({<<"code", JNum(15)>>, <<"message", JStr(Denied)>>})>>}
    /\ result.kind = "DomainError"
    /\ result.code = 15
    /\ result.message = Denied

\* C8: a document that is not an object, or an object with neither the
\* payload key nor the fault key, gives MalformedEnvelope and never Ok.
C8_MalformedEnvelope ==
    (Resolved /\ (raw.kind # "object" \/ (~HasPayload /\ ~HasFault))) =>
        result.kind = "MalformedEnvelope"

C8_Witness ==
    /\ Resolved
    /\ raw \in {[kind |-> "object", flds |-> {}], [kind |-> "array", flds |-> {}]}
    /\ result.kind = "MalformedEnvelope"

\* C9 as stated: a payload that does not decode into T gives a
\* PayloadDecodeError carrying the name of T and the decode cause.
C9_CarriesTypeName ==
    (Resolved /\ HasPayload /\ ~FromValue(target, Payload).ok) =>
        /\ result.kind = "PayloadDecodeError"
        /\ result.cause = FromValue(target, Payload).cause
        /\ result.tname = target

\* C9: a payload that does not decode into T gives a PayloadDecodeError
\* carrying the decode cause; never Ok, never the outcome of the fault branch.
C9_PayloadDecodeError ==
    (Resolved /\ HasPayload /\ ~FromValue(target, Payload).ok) =>
        /\ result.kind = "PayloadDecodeError"
        /\ result.cause = FromValue(target, Payload).cause

C9_Witness ==
    /\ Resolved
    /\ target = "PhotoTags"
    /\ raw.flds = {<<"response", VObj({<<"unexpected_shape", JOther("bool")>>})>>,
                   <<"error", VObj({<<"code", JNum(15)>>, <<"message", JStr(Denied)>>})>>}
    /\ result.kind = "PayloadDecodeError"
    /\ result.cause = <<"missing field", "count">>

ResolutionOutcomes == {"Ok", "DomainError", "PayloadDecodeError", "MalformedEnvelope"}
UndecodableFault == raw.kind = "object" /\ ~HasPayload /\ HasFault /\ ~IsFaultRecord(Fault)

\* C10 as stated: one pass, one of the four outcomes, and an undecodable
\* fault ends in an outcome that differs from a payload decode failure.
C10_FaultFailureDistinct ==
    [][pc = "fetched" =>
          /\ pc' = "done"
          /\ result'.kind \in ResolutionOutcomes
          /\ UndecodableFault => result'.kind # "PayloadDecodeError"]_vars

\* C10: a resolution is one step from the fetched document to exactly one of
\* the four outcomes, set once and never again; an undecodable fault ends in
\* the decode-error outcome, the one a payload decode failure ends in.
C10_SinglePass ==
    /\ [](pc \in {"idle", "sending", "reading", "fetched"} => result = NoOutcome)
    /\ [](Resolved => result.kind \in ResolutionOutcomes)
    /\ [][pc = "fetched" =>
            /\ pc' = "done"
            /\ result'.kind \in ResolutionOutcomes
            /\ UndecodableFault => result'.kind = "PayloadDecodeError"]_vars
    /\ [][pc = "done" => (pc' = "done" /\ result' = result)]_vars

C10_Witness ==
    /\ Resolved
    /\ raw.flds = {<<"error", Lift(JNum(5))>>}
    /\ result.kind = "PayloadDecodeError"

(***************************************************************************)
(* C11: the outcome of a resolution does not depend on the trace sink:     *)
(* with the feature off or on, the directory creatable or not, either      *)
(* write failing or not, trace-all on or off, the same document gives the  *)
(* same Ok value or the same error; a trace failure is logged and is       *)
(* never the result.                                                       *)
(***************************************************************************)
TraceAttempted ==
    /\ sink.feature
    /\ HasPayload
    /\ (result.kind = "PayloadDecodeError" \/ sink.traceAll)

TraceFailed ==
    /\ TraceAttempted
    /\ \/ ~sink.dirOk
       \/ ~sink.jsonOk
       \/ result.kind = "PayloadDecodeError" /\ ~sink.msgOk

ErrorLogged == \E i \in 1..Len(logs) : logs[i][1] = "error"

\* Resolve takes every sink with every target and document, so that each
\* result equals the one got with tracing off says they are all the same
C11_OutcomeIgnoresSink ==
    Resolved =>
        /\ result = Resolution(target, raw, NoSink, {}).out
        /\ result.kind \in ResolutionOutcomes
        /\ TraceFailed => ErrorLogged
        /\ ErrorLogged => TraceFailed

C11_Witness ==
    /\ Resolved
    /\ sink.feature /\ ~sink.dirOk
    /\ result.kind = "PayloadDecodeError"
    /\ ErrorLogged
    /\ files = {}

(***************************************************************************)
(* C12: when the send fails or the body cannot be read as JSON,            *)
(* call_method returns that transport error and resolution never runs:     *)
(* no document is looked into, no trace sink is consulted, no trace        *)
(* artifact is written and nothing is logged; a call that ended without a  *)
(* document ended with the transport error.                                *)
(***************************************************************************)
C12_TransportBypasses ==
    /\ result.kind = "TransportError" =>
            /\ pc = "done"
            /\ result \in {FromReqwestError("send"), FromReqwestError("json")}
            /\ raw = NoDoc
            /\ sink = NoSink
            /\ files = {}
            /\ logs = <<>>
    /\ pc = "done" /\ raw = NoDoc => result.kind = "TransportError"
    /\ raw # NoDoc => pc \in {"fetched", "done"}

C12_Witness ==
    /\ pc = "done"
    /\ result = FromReqwestError("json")
    /\ raw = NoDoc
    /\ files = {}

(***************************************************************************)
(* C13: in every interleaving of concurrent resolutions each call's        *)
(* outcome is what it would be alone, and every trace artifact a call      *)
(* wrote is still there, unaltered, whatever the other calls did.          *)
(***************************************************************************)
C13_NoInterference ==
    \A c \in Procs :
        calls[c].pc = "done" =>
            LET alone == Resolution(calls[c].target, calls[c].raw, calls[c].sink, {})
            IN  /\ calls[c].result = alone.out
                /\ alone.files \subseteq files

(***************************************************************************)
(* C14: DocumentType::from(d as Integer) = d for every variant d, with     *)
(* Text=1, Archive=2, Gif=3, Image=4, Audio=5, Video=6, Ebook=7, Other=8;  *)
(* every integer outside 1..7 (0, negatives, 8 and above) maps to Other.   *)
(***************************************************************************)
StatedCodes ==
    [Text |-> 1, Archive |-> 2, Gif |-> 3, Image |-> 4,
     Audio |-> 5, Video |-> 6, Ebook |-> 7, Other |-> 8]

C14_RoundTrip ==
    /\ dvar # "none" => dint = StatedCodes[dvar]
    /\ dpc = "done" =>
          /\ dvar # "none" => dtype = dvar
          /\ dint \notin 1..7 => dtype = "Other"
          /\ dint \in 1..7 => dtype # "Other" /\ AsInteger(dtype) = dint

C14_Witness ==
    /\ dpc = "done"
    /\ dvar = "Ebook"
    /\ dint = 7
    /\ dtype = "Ebook"

(***************************************************************************)
(* C15: the payload branch comes first: when the document has the payload  *)
(* key (with or without the fault key, and also when its value is null)    *)
(* the outcome is the decode of the payload value alone, Ok or             *)
(* PayloadDecodeError; the fault value plays no part and there is no       *)
(* DomainError; the fault key counts only when the payload key is absent.  *)
(***************************************************************************)
WithoutFault == [raw EXCEPT !.flds = MapRemove(@, "error")]

C15_PayloadFirst ==
    Resolved =>
        /\ HasPayload =>
              LET dec == FromValue(target, Payload)
              IN  /\ result = IF dec.ok THEN Ok(dec.val) ELSE FromSerdeError(dec.cause)
                  /\ result = Resolution(target, WithoutFault, sink, {}).out
                  /\ result.kind \in {"Ok", "PayloadDecodeError"}
        /\ result.kind = "DomainError" => HasFault /\ ~HasPayload

C15_Witness ==
    /\ Resolved
    /\ HasPayload /\ Payload = VNull
    /\ HasFault /\ FromValueAPIError(Fault).ok
    /\ target = "Value"
    /\ result.kind = "Ok"
    /\ result = Ok(FromValue("Value", VNull).val)

(***************************************************************************)
(* C16: with tracing enabled, a payload that fails to decode is traced as  *)
(* 'failed' (document and decode error message) whatever trace-all says;   *)
(* a payload that decodes is traced as 'succeeded' (document only, no      *)
(* message file) only when trace-all is set; a DomainError or              *)
(* MalformedEnvelope outcome, and any outcome without the payload key, is  *)
(* never traced; one resolution makes at most one trace attempt.           *)
(***************************************************************************)
\* each attempt logs exactly one line about its directory or its .json file
Attempts(subdir) ==
    Cardinality({i \in 1..Len(logs) : logs[i][3] = subdir /\ logs[i][4] \in {"", ".json"}})

MessageLines == {i \in 1..Len(logs) : logs[i][4] = "_msg.txt"}

FileAt(subdir, ext) == {f \in files : f.path = <<subdir, sink.now, ext>>}

C16_TraceAttempts ==
    Resolved /\ sink.feature =>
        /\ Attempts("/failed") + Attempts("/succeeded") <= 1
        /\ Attempts("/failed") = 1 <=> HasPayload /\ result.kind = "PayloadDecodeError"
        /\ Attempts("/succeeded") = 1 <=> HasPayload /\ result.kind = "Ok" /\ sink.traceAll
        /\ Attempts("/failed") + Attempts("/succeeded") = 0 => logs = <<>> /\ files = {}
        /\ result.kind \in {"DomainError", "MalformedEnvelope"} => logs = <<>> /\ files = {}
        /\ Attempts("/failed") = 1 /\ sink.dirOk =>
              /\ Cardinality(MessageLines) = 1
              /\ sink.jsonOk => FileAt("/failed", ".json") # {}
              /\ sink.msgOk => \E f \in FileAt("/failed", "_msg.txt") : f.msg = result.cause
              /\ \A f \in files : f.path[1] = "/failed"
        /\ Attempts("/succeeded") = 1 =>
              /\ MessageLines = {}
              /\ sink.dirOk /\ sink.jsonOk => FileAt("/succeeded", ".json") # {}
              /\ \A f \in files : f.path[1] = "/succeeded" /\ f.path[3] = ".json"

C16_Witness ==
    /\ Resolved
    /\ sink.feature /\ sink.traceAll /\ sink.dirOk /\ sink.jsonOk
    /\ result.kind = "Ok"
    /\ Cardinality(files) = 1
    /\ FileAt("/succeeded", ".json") = files

(***************************************************************************)
(* C17: the document in the trace sink is the whole envelope as received:  *)
(* its text is the text of the envelope before the payload key was         *)
(* removed, so it holds the payload key with its value and every other     *)
(* top-level key with its value; the file is there when the result is      *)
(* returned.                                                               *)
(***************************************************************************)
Contains(text, part) ==
    \E i \in 0..(Len(text) - Len(part)) : SubSeq(text, i + 1, i + Len(part)) = part

MemberText(k) == Quoted(<<k>>) \o <<":">> \o ValueText(MapGet(raw.flds, k))

DocumentFiles == {f \in files : f.path[3] = ".json"}

C17_WholeEnvelopeTraced ==
    /\ files # {} => pc = "done" /\ result # NoOutcome
    /\ Resolved =>
          \A f \in DocumentFiles :
              /\ f.doc = Value_to_string(raw)
              /\ HasPayload /\ Contains(f.doc, MemberText("response"))
              /\ \A p \in raw.flds : Contains(f.doc, MemberText(p[1]))
              /\ f.doc[1] = "{" /\ f.doc[Len(f.doc)] = "}"

C17_Witness ==
    /\ Resolved
    /\ result.kind = "PayloadDecodeError"
    /\ HasFault /\ MapHas(raw.flds, "execute_errors")
    /\ HasPayload
    /\ Payload =VObj({<<"count", JStr(<<"7">>)>>})
    /\ \E f \in DocumentFiles :
          Contains(f.doc, <<"\"", "response", "\"", ":", "{", "\"", "count", "\"", ":",
                            "\"", "7", "\"", "}">>)

(***************************************************************************)
(* C18: whatever map the caller supplies, the request carries              *)
(* v = API_VERSION and access_token = the client's token, in place of any  *)
(* values supplied under those keys, and every other supplied key with     *)
(* its value; it has no other key and lacks none; the client's token is    *)
(* never changed.                                                          *)
(***************************************************************************)
Injected == {"v", "access_token"}

Keys(m) == {p[1] : p \in m}

RequestAsClaimed ==
    pc # "idle" =>
        /\ <<"v", "API_VERSION">> \in request
        /\ <<"access_token", token>> \in request
        /\ \A p \in supplied : p[1] \notin Injected => p \in request
        /\ Keys(request) = Keys(supplied) \cup Injected
        /\ Cardinality(request) = Cardinality(Keys(request))

C18_RequestParameters == [](RequestAsClaimed) /\ [][token' = token]_vars

C18_Witness ==
    /\ pc = "done"
    /\ supplied = {<<"v", "0.1">>, <<"q", "cats">>}
    /\ request = {<<"v", "API_VERSION">>, <<"q", "cats">>, <<"access_token", token>>}
    /\ token = "tokB"

====
